---------------------------- MODULE Spec2Model ----------------------------
(***************************************************************************)
(* Model of src/12-springs/src/main.rs: the condition-record arrangement   *)
(* counter (MaintenanceRecord), its line parser, the 5x unfolding and the  *)
(* two totals computed by main().                                          *)
(*                                                                         *)
(* A line is a sequence of one-character strings.  A cell is one of        *)
(* "." (Clear), "#" (Blocked), "?" (Unknown); the parser stores whatever   *)
(* characters the first field holds.                                       *)
(*                                                                         *)
(* usize arithmetic: the loop bound of possible_failures subtracts in      *)
(* usize.  With overflow checks (debug profile, the profile of `cargo      *)
(* test`) a subtraction below zero panics; without them (release profile)  *)
(* it wraps modulo 2^64.  The variable overflow_checks fixes the profile   *)
(* of a run; both profiles are explored.                                   *)
(*                                                                         *)
(* Specifications: Spec (main() on the lines of a file), SpecCount (the    *)
(* two counting methods called on a record), SpecStep (one counting call   *)
(* followed step by step) and SpecStepFair (the same, the running call     *)
(* going on), SpecUnfold (the unfolding and the factor a caller wants),    *)
(* SpecPar (the per-record calls run as concurrent tasks).                 *)
(***************************************************************************)
EXTENDS Integers, Sequences, FiniteSets, TLC

VARIABLES
    input,                          \* the lines of the file given to main()
    overflow_checks,                \* TRUE: debug profile, FALSE: release profile
    pc,                             \* main()'s position
    lineNo,                         \* lines consumed by parse_all_maintenance_records
    maintenance_record,             \* main.rs:129 (parse_all's maintenance_records)
    parse_error,                    \* "none", or how parsing ended the process
    idx,                            \* records consumed by the current loop of main()
    total_possible_failures,        \* main.rs:131
    total_possible_failures_unfold, \* main.rs:136
    plain_counts,                   \* the values returned at main.rs:133, in order
    unfold_counts,                  \* the values returned at main.rs:138, in order
    new_springs,                    \* main.rs:107, of the last unfolding call
    new_damaged_springs,            \* main.rs:114, of the last unfolding call
    call,                           \* the last counting call: which, on which record, how it ended
    factor,                         \* the number of copies the caller of the unfolding wants
    exec,                           \* possible_failures in progress: its calls and its cache
    obs,                            \* what the steps of exec did (history)
    tasks                           \* the per-record tasks of a concurrent aggregator

vars == <<input, overflow_checks, pc, lineNo, maintenance_record, parse_error, idx,
          total_possible_failures, total_possible_failures_unfold,
          plain_counts, unfold_counts, new_springs, new_damaged_springs, call,
          factor, exec, obs, tasks>>

----------------------------------------------------------------------------
(* Bounds of the explored inputs.                                          *)

MaxLen == 4         \* longest record constructed directly
MaxGroups == 2      \* longest group list constructed directly
MaxGroup == 2       \* largest run length in a group list constructed directly
MaxLines == 2       \* longest batch built from the line catalogue
MaxCalls == 1       \* counting calls made on a record constructed directly
MaxStepLen == 2     \* longest record whose counting is followed step by step
MaxStepCalls == 3   \* counting calls followed step by step on one record

----------------------------------------------------------------------------
(* Slices and iterators.                                                   *)

Min(a, b) == IF a <= b THEN a ELSE b

\* lava[a..b] of Rust (0-based, b exclusive); callers keep a <= b <= Len(s).
Slice(s, a, b) == SubSeq(s, a + 1, b)

\* slice.contains(&c)
Contains(s, c) == \E k \in 1..Len(s) : s[k] = c

RECURSIVE Sum(_)
\* iter().sum::<usize>()
Sum(s) == IF s = <<>> THEN 0 ELSE Head(s) + Sum(Tail(s))

RECURSIVE Repeat(_, _)
\* Vec::repeat(n)
Repeat(s, n) == IF n = 0 THEN <<>> ELSE s \o Repeat(s, n - 1)


----------------------------------------------------------------------------
(* The counter: MaintenanceRecord::possible_failures, main.rs:73-99.       *)
(*                                                                         *)
(* A call ends in one of three ways:                                       *)
(*   [kind |-> "ok", result, cache]  it returns result, leaving cache;     *)
(*   [kind |-> "panic"]              it panics (the process ends);         *)
(*   [kind |-> "hang"]               its offset loop runs on the order of  *)
(*                                   2^64 iterations: it does not return.  *)

Ret(result, cache) == [kind |-> "ok", result |-> result, cache |-> cache]
Panicked == [kind |-> "panic"]
Hangs == [kind |-> "hang"]

\* HashMap::new(): the empty map from (lava, springs) to usize.
EmptyCache == <<>>

\* CacheHas of a cache in which nothing is ever found.
CacheNeverHas(cache, lava, springs) == FALSE

\* cache.get(&(lava, springs)).is_some(): keys are compared by slice CONTENT.
CacheHas(cache, lava, springs) == <<lava, springs>> \in DOMAIN cache

\* CacheInsert into a cache that keeps its newest entry only.
CacheInsertEvicting(cache, lava, springs, result) == <<lava, springs>> :> result

\* CacheInsert that also stores the sub-problem with no group left.
CacheInsertWithBaseCase(cache, lava, springs, result) ==
    (<<lava, springs>> :> result) @@ (<<lava, <<>>>> :> 1) @@ cache

\* CacheInsert storing one more than the result.
CacheInsertOneMore(cache, lava, springs, result) ==
    (<<lava, springs>> :> (result + 1)) @@ cache

\* cache.insert((lava, springs), result): an existing entry is overwritten.
CacheInsert(cache, lava, springs, result) == (<<lava, springs>> :> result) @@ cache

\* The end of the range at main.rs:85,
\*   lava.len() - sum(remaining) - remaining.len() - current + 1   in usize.
\* The usize value is wraps * 2^64 + n.  With overflow checks the first
\* subtraction that goes below zero panics; without them the differences wrap
\* and so does the final + 1 (2^64 - 1 + 1 = 0).
LoopBound(len, sumrest, lenrest, current, checks) ==
    LET x == len - sumrest - lenrest - current IN
    IF x >= 0 THEN [kind |-> "ok", wraps |-> 0, n |-> x + 1]
    ELSE IF checks THEN [kind |-> "panic"]
    ELSE IF x = -1 THEN [kind |-> "ok", wraps |-> 0, n |-> 0]
    ELSE [kind |-> "ok", wraps |-> 1, n |-> x + 1]

\* BlockedBefore looking one cell too far: a Blocked cell AT offset i counts.
BlockedBeforeOrAt(lava, i) == Contains(Slice(lava, 0, Min(Len(lava), i + 1)), "#")

\* main.rs:86: a Blocked cell before offset i.
BlockedBefore(lava, i) == Contains(Slice(lava, 0, Min(Len(lava), i)), "#")

\* CanPlace when the cell after the run has to be Clear already: an Unknown
\* cell there is refused like a Blocked one.
CanPlaceBeforeClear(lava, i, current) ==
    LET next == i + current IN
    /\ next <= Len(lava)
    /\ ~Contains(Slice(lava, i, Min(Len(lava), next)), ".")
    /\ Slice(lava, next, Min(Len(lava), next + 1)) \notin {<<"#">>, <<"?">>}

\* CanPlace without the test of the cell after the run.
CanPlaceNoSeparator(lava, i, current) ==
    LET next == i + current IN
    /\ next <= Len(lava)
    /\ ~Contains(Slice(lava, i, Min(Len(lava), next)), ".")

\* main.rs:91: a run of `current` cells may start at offset i.
\* (&& short-circuits: the slices are only taken when next <= lava.len().)
CanPlace(lava, i, current) ==
    LET next == i + current IN
    /\ next <= Len(lava)
    /\ ~Contains(Slice(lava, i, Min(Len(lava), next)), ".")
    /\ Slice(lava, next, Min(Len(lava), next + 1)) # <<"#">>

\* Rest that skips one cell more than the run and its separator.
RestSkippingTwo(lava, i, current) == Slice(lava, Min(Len(lava), i + current + 2), Len(lava))

\* Rest taken from the front of the record: as many cells, but a prefix.
RestFromFront(lava, i, current) ==
    Slice(lava, 0, Len(lava) - Min(Len(lava), i + current + 1))

\* main.rs:92: what is left after the run and its separator.
Rest(lava, i, current) == Slice(lava, Min(Len(lava), i + current + 1), Len(lava))

\* InRange of a range without end.
InRangeAlways(i, bound) == TRUE

\* i < bound, for the offsets i the loop visits (all of them far below 2^64).
InRange(i, bound) == bound.wraps = 1 \/ i < bound.n

\* BaseCase without the test for a Blocked cell.
BaseCaseAlwaysOne(lava) == 1

\* main.rs:81: the count when no group is left.
BaseCase(lava) == IF Contains(lava, "#") THEN 0 ELSE 1

(* possible_failures calls itself; the calls in progress are a stack of    *)
(* frames, the innermost last.  A frame holds the arguments lava and       *)
(* springs of its call, and once the call is in its for loop: the end      *)
(* `bound` of the range, the offset i and the `result` accumulated.        *)
(*   at = "enter": the call has just been made (main.rs:75);               *)
(*   at = "loop":  it is about to test the range for offset i (main.rs:85);*)
(*   at = "wait":  it has called itself at main.rs:92 for offset i.        *)
(* An execution is [stack, cache, status, result]: status is "run" while   *)
(* calls are in progress, then "ok" (the outermost call returned result),  *)
(* "panic" or "hang".                                                      *)

NoBound == [kind |-> "ok", wraps |-> 0, n |-> 0]

Frame(lava, springs) ==
    [lava |-> lava, springs |-> springs, at |-> "enter", i |-> 0, bound |-> NoBound,
     result |-> 0]

\* The outermost call possible_failures(lava, springs, cache).
Start(lava, springs, cache) ==
    [stack |-> <<Frame(lava, springs)>>, cache |-> cache, status |-> "run", result |-> 0]

Top(m) == m.stack[Len(m.stack)]
Caller(m) == m.stack[Len(m.stack) - 1]
Popped(m) == SubSeq(m.stack, 1, Len(m.stack) - 1)

\* The innermost call returns v (main.rs:76, 81, 98).  Its caller, if any,
\* adds v to its result at main.rs:92 and goes on to the next offset.
Return(m, v, cache) ==
    IF Len(m.stack) = 1
    THEN [stack |-> <<>>, cache |-> cache, status |-> "ok", result |-> v]
    ELSE LET c == Caller(m) IN
         [m EXCEPT !.cache = cache,
                   !.stack = Append(SubSeq(m.stack, 1, Len(m.stack) - 2),
                                    [c EXCEPT !.result = c.result + v, !.i = c.i + 1,
                                              !.at = "loop"])]

\* main.rs:75-85: from the entry of a call to the start of its for loop.
Enter(m, checks) ==
    LET f == Top(m)
        current == Head(f.springs)
        remaining == Tail(f.springs)
        bound == LoopBound(Len(f.lava), Sum(remaining), Len(remaining), current, checks)
    IN  IF CacheHas(m.cache, f.lava, f.springs)
        THEN Return(m, m.cache[<<f.lava, f.springs>>], m.cache)
        ELSE IF f.springs = <<>> THEN Return(m, BaseCase(f.lava), m.cache)
        ELSE IF bound.kind = "panic" THEN [m EXCEPT !.status = "panic"]
        ELSE [m EXCEPT !.stack = Append(Popped(m), [f EXCEPT !.at = "loop", !.bound = bound])]

\* main.rs:85-98: the range test for offset i, then either the iteration at
\* i (main.rs:86-93) or the end of the loop (main.rs:96-98).  An offset past
\* the end of a record without a Blocked cell is only visited under a wrapped
\* bound: from there on no iteration changes anything until i nears 2^64, so
\* the call does not return.
Loop(m) ==
    LET f == Top(m)
        current == Head(f.springs)
    IN  IF ~InRange(f.i, f.bound) \/ BlockedBefore(f.lava, f.i)
        THEN Return(m, f.result, CacheInsert(m.cache, f.lava, f.springs, f.result))
        ELSE IF f.i > Len(f.lava) THEN [m EXCEPT !.status = "hang"]
        ELSE IF CanPlace(f.lava, f.i, current)
        THEN [m EXCEPT !.stack = Append(Append(Popped(m), [f EXCEPT !.at = "wait"]),
                                        Frame(Rest(f.lava, f.i, current), Tail(f.springs)))]
        ELSE [m EXCEPT !.stack = Append(Popped(m), [f EXCEPT !.i = f.i + 1])]

\* One step of the innermost call.
Step(m, checks) == IF Top(m).at = "enter" THEN Enter(m, checks) ELSE Loop(m)

RECURSIVE RunFor(_, _, _)
\* m after at most 2^k more steps.
RunFor(m, k, checks) ==
    IF m.status # "run" THEN m
    ELSE IF k = 0 THEN Step(m, checks)
    ELSE LET half == RunFor(m, k - 1, checks) IN
         IF half.status # "run" THEN half ELSE RunFor(half, k - 1, checks)

RECURSIVE Run(_, _, _)
\* m run until its outermost call ends: 2^k steps, then 2^(k+1) more, ...
Run(m, k, checks) ==
    LET r == RunFor(m, k, checks) IN
    IF r.status # "run" THEN r ELSE Run(r, k + 1, checks)

\* main.rs:73-99: how the call ends.
possible_failures(lava, springs, cache, checks) ==
    LET m == Run(Start(lava, springs, cache), 0, checks) IN
    IF m.status = "ok" THEN Ret(m.result, m.cache)
    ELSE IF m.status = "panic" THEN Panicked
    ELSE Hangs

\* main.rs:101-104
count_possible_failures(record, checks) ==
    possible_failures(record.springs, record.damaged_springs, EmptyCache, checks)

\* main.rs:108: for i in 0..5
Copies == 5
\* main.rs:110: if i < 4
SeparatorsBefore == 4
\* main.rs:114: repeat(5)
GroupCopies == 5

RECURSIVE UnfoldedTrailing(_, _)
\* Unfolded with a separator after every copy, the last included.
UnfoldedTrailing(springs, i) ==
    IF i >= Copies THEN <<>>
    ELSE springs \o <<"?">> \o UnfoldedTrailing(springs, i + 1)

RECURSIVE Unfolded(_, _)
\* main.rs:107-113: what the iterations i, i + 1, ... of the loop append.
Unfolded(springs, i) ==
    IF i >= Copies THEN <<>>
    ELSE springs \o (IF i < SeparatorsBefore THEN <<"?">> ELSE <<>>)
                 \o Unfolded(springs, i + 1)

\* main.rs:114
UnfoldedGroups(damaged_springs) == Repeat(damaged_springs, GroupCopies)

\* The unfolded count derived from the plain count: its fifth power.
CountUnfoldFromPlain(record, checks) ==
    LET r == count_possible_failures(record, checks) IN
    IF r.kind # "ok" THEN r
    ELSE Ret(r.result * r.result * r.result * r.result * r.result, r.cache)

\* main.rs:106-119
count_possible_failures_unfold(record, checks) ==
    possible_failures(Unfolded(record.springs, 0), UnfoldedGroups(record.damaged_springs),
                      EmptyCache, checks)

----------------------------------------------------------------------------
(* The parser: main.rs:48-71.                                              *)

RECURSIVE Split(_, _)
\* str::split(sep): the fields between the separators; n separators give
\* n + 1 fields, empty ones included.
Split(s, sep) ==
    IF ~Contains(s, sep) THEN <<s>>
    ELSE LET k == CHOOSE j \in 1..Len(s) : s[j] = sep /\ \A h \in 1..(j - 1) : s[h] # sep
         IN  <<SubSeq(s, 1, k - 1)>> \o Split(SubSeq(s, k + 1, Len(s)), sep)

Digits == <<"0", "1", "2", "3", "4", "5", "6", "7", "8", "9">>
IsDigit(c) == \E d \in 1..Len(Digits) : Digits[d] = c
\* DigitValue counting the digits from one: "0" is 1, ..., "9" is 10.
DigitValueFromOne(c) == CHOOSE d \in 1..Len(Digits) : Digits[d] = c
DigitValue(c) == (CHOOSE d \in 1..Len(Digits) : Digits[d] = c) - 1

RECURSIVE DecimalValue(_, _)
\* The value of the digit string s after the value acc of the digits before it.
DecimalValue(s, acc) ==
    IF s = <<>> THEN acc ELSE DecimalValue(Tail(s), 10 * acc + DigitValue(Head(s)))

\* s.parse::<usize>(), main.rs:57: an optional "+", then one or more decimal
\* digits; anything else is a ParseIntError.  (The digit strings of the model
\* are far too short to overflow usize.)
ParseUsize(s) ==
    LET digits == IF s # <<>> /\ Head(s) = "+" THEN Tail(s) ELSE s IN
    IF digits # <<>> /\ \A k \in 1..Len(digits) : IsDigit(digits[k])
    THEN [ok |-> TRUE, value |-> DecimalValue(digits, 0)]
    ELSE [ok |-> FALSE, value |-> 0]

\* main.rs:48-61.  "panic" is the assertion of main.rs:52, "err" the
\* ParseIntError returned through `?` at main.rs:58.
parse_maintenance_record(line) ==
    LET line_parts == Split(line, " ") IN
    IF Len(line_parts) # 2 THEN [kind |-> "panic"]
    ELSE LET fields == Split(line_parts[2], ",")
             parsed == [k \in 1..Len(fields) |-> ParseUsize(fields[k])]
         IN  IF \E k \in 1..Len(fields) : ~parsed[k].ok THEN [kind |-> "err"]
             ELSE [kind |-> "ok",
                   record |-> [springs |-> line_parts[1],
                               damaged_springs |-> [k \in 1..Len(fields) |-> parsed[k].value]]]

----------------------------------------------------------------------------
(* Inputs.                                                                 *)

Cells == {".", "#", "?"}

RECURSIVE SeqsUpTo(_, _)
\* All sequences over S of length at most n.
SeqsUpTo(S, n) ==
    IF n = 0 THEN {<<>>}
    ELSE LET shorter == SeqsUpTo(S, n - 1) IN
         shorter \cup {Append(q, x) : q \in shorter, x \in S}

\* The records constructed directly: the struct of main.rs:3-6 with any cells
\* and any run lengths >= 1 (and none: MaintenanceRecord::new()).
DirectRecords ==
    {[springs |-> sp, damaged_springs |-> g] :
        sp \in SeqsUpTo(Cells, MaxLen), g \in SeqsUpTo(1..MaxGroup, MaxGroups)}

RECURSIVE Decimal(_)
\* The decimal digits of n.
Decimal(n) == IF n < 10 THEN <<Digits[n + 1]>> ELSE Append(Decimal(n \div 10), Digits[(n % 10) + 1])

RECURSIVE Joined(_)
\* The run lengths g, comma-separated.
Joined(g) ==
    IF Len(g) = 1 THEN Decimal(g[1]) ELSE Decimal(Head(g)) \o <<",">> \o Joined(Tail(g))

\* A line of the file as BufRead::lines() yields it: readable text, or an
\* io::Error (for instance invalid UTF-8).
Text(t) == [readable |-> TRUE, text |-> t]
Unreadable == [readable |-> FALSE, text |-> <<>>]

\* The line "<record> <spec>" of the input grammar.
Line(sp, g) == Text(sp \o <<" ">> \o Joined(g))

\* test_data(), main.rs:151-158.
CanonicalBatch ==
    << Line(<<"?","?","?",".","#","#","#">>, <<1, 1, 3>>),
       Line(<<".","?","?",".",".","?","?",".",".",".","?","#","#",".">>, <<1, 1, 3>>),
       Line(<<"?","#","?","#","?","#","?","#","?","#","?","#","?","#","?">>, <<1, 3, 1, 6>>),
       Line(<<"?","?","?","?",".","#",".",".",".","#",".",".",".">>, <<4, 1, 1>>),
       Line(<<"?","?","?","?",".","#","#","#","#","#","#",".",".","#","#","#","#","#",".">>,
            <<1, 6, 5>>),
       Line(<<"?","#","#","#","?","?","?","?","?","?","?","?">>, <<3, 2, 1>>) >>

\* Short lines, well-formed and not, from which the other batches are built.
Catalogue ==
    { Line(<<"?", ".", "#">>, <<1, 1>>),
      Line(<<"#", "?", ".">>, <<2>>),
      Line(<<".", "?">>, <<1>>),
      Line(<<"#">>, <<2>>),                         \* the spec does not fit
      Line(<<".">>, <<3>>),                         \* the spec does not fit
      Line(<<"#", ".">>, <<12, 1>>),                \* a run length of two digits
      Line(<<"#", "?">>, <<0>>),                    \* a run length of 0
      Line(<<"?", "x", "#">>, <<1, 1>>),            \* a character that is no cell
      Text(<<"?", ".", "#", " ", "+", "1", ",", "1">>),
      Text(<<>>),                                   \* an empty line
      Text(<<"?", ".", "#">>),                      \* no spec
      Text(<<"?", ".", "#", " ", "1", " ", "1">>),  \* three fields
      Text(<<"?", ".", "#", " ", "x">>),            \* a spec that is no number
      Text(<<"?", ".", "#", " ", "1", ",">>),       \* an empty run length
      Unreadable }

Batches == {CanonicalBatch} \cup (SeqsUpTo(Catalogue, MaxLines) \ {<<>>})

NoCall == [op |-> "none", k |-> 0, kind |-> "none", result |-> 0]

\* No call of possible_failures is in progress: no frame, no cache.
NoExec == [stack |-> <<>>, cache |-> EmptyCache, status |-> "none", result |-> 0]

\* What one step of possible_failures did, as seen from outside: `kind` in the
\* frame with arguments lava and springs at offset i, returning `value` if it
\* returned; `placed`: it called itself; `tried`: the offsets of the frame
\* whose placement has been tested so far.
Event(kind, f, value, placed, tried) ==
    [kind |-> kind, lava |-> f.lava, springs |-> f.springs, i |-> f.i, value |-> value,
     placed |-> placed, tried |-> tried]

NoEvent == Event("none", Frame(<<>>, <<>>), 0, FALSE, {})

\* Nothing observed yet: no event, no frame, no sub-problem computed.
\*   tried[d]:      the offsets tested by the frame at depth d of the stack;
\*   computed[key]: how often the sub-problem at the offsets `key` has been
\*                  computed, not taken from the cache, by the current
\*                  top-level call.
NoObs == [event |-> NoEvent, tried |-> <<>>, computed |-> <<>>, stored |-> <<>>]

\* No concurrent task has been started.
NoTasks == <<>>

----------------------------------------------------------------------------
(* main(), main.rs:122-144, on the lines of a file.                        *)

Init ==
    /\ input \in Batches
    /\ overflow_checks \in BOOLEAN
    /\ pc = "parse"
    /\ lineNo = 0
    /\ maintenance_record = <<>>
    /\ parse_error = "none"
    /\ idx = 0
    /\ total_possible_failures = 0
    /\ total_possible_failures_unfold = 0
    /\ plain_counts = <<>>
    /\ unfold_counts = <<>>
    /\ new_springs = <<>>
    /\ new_damaged_springs = <<>>
    /\ call = NoCall
    /\ factor = Copies
    /\ exec = NoExec
    /\ obs = NoObs
    /\ tasks = NoTasks

\* How reading and parsing one item of reader.lines() ends, main.rs:66-67:
\* "ok" with the record, or the reason parse_all_maintenance_records stops.
ParseOutcome(item) ==
    IF ~item.readable THEN [kind |-> "IoError"]
    ELSE LET r == parse_maintenance_record(item.text) IN
         IF r.kind = "ok" THEN r
         ELSE IF r.kind = "err" THEN [kind |-> "ParseIntError"]
         ELSE [kind |-> "assertion"]

\* One iteration of the loop of parse_all_maintenance_records, main.rs:65-69.
\* An Err leaves the loop through `?` and main's expect (main.rs:129) panics;
\* the assertion of main.rs:52 panics by itself.
ParseLine ==
    /\ pc = "parse"
    /\ lineNo < Len(input)
    /\ LET r == ParseOutcome(input[lineNo + 1]) IN
       IF r.kind = "ok"
       THEN /\ maintenance_record' = Append(maintenance_record, r.record)
            /\ UNCHANGED <<pc, parse_error>>
       ELSE /\ pc' = "panicked"
            /\ parse_error' = r.kind
            /\ UNCHANGED maintenance_record
    /\ lineNo' = lineNo + 1
    /\ UNCHANGED <<input, overflow_checks, idx, total_possible_failures,
                   total_possible_failures_unfold, plain_counts, unfold_counts,
                   new_springs, new_damaged_springs, call>>
    /\ UNCHANGED <<factor, exec, obs, tasks>>

\* parse_all_maintenance_records returns Ok (main.rs:70) and main goes on to
\* its first loop (main.rs:129-131).
ParseEnd ==
    /\ pc = "parse"
    /\ lineNo = Len(input)
    /\ pc' = "plain"
    /\ idx' = 0
    /\ UNCHANGED <<input, overflow_checks, lineNo, maintenance_record, parse_error,
                   total_possible_failures, total_possible_failures_unfold,
                   plain_counts, unfold_counts, new_springs, new_damaged_springs, call>>
    /\ UNCHANGED <<factor, exec, obs, tasks>>

\* Accumulate with = for +=.
AccumulateLast(total, count) == count

\* total += count, main.rs:133 and main.rs:138.
Accumulate(total, count) == total + count

\* Where main() is after a counting call that ended as `kind`.
AfterCall(kind, here) ==
    IF kind = "ok" THEN here ELSE IF kind = "panic" THEN "panicked" ELSE "hung"

\* What `call` records of the call `op` on record k that ended as r.
CallRecord(op, k, r) ==
    [op |-> op, k |-> k, kind |-> r.kind, result |-> IF r.kind = "ok" THEN r.result ELSE 0]

\* One iteration of the first loop of main(), main.rs:132-134.
PlainCount ==
    /\ pc = "plain"
    /\ idx < Len(maintenance_record)
    /\ LET r == count_possible_failures(maintenance_record[idx + 1], overflow_checks) IN
       /\ call' = CallRecord("count", idx + 1, r)
       /\ pc' = AfterCall(r.kind, "plain")
       /\ IF r.kind = "ok"
          THEN /\ total_possible_failures' = Accumulate(total_possible_failures, r.result)
               /\ plain_counts' = Append(plain_counts, r.result)
               /\ idx' = idx + 1
          ELSE UNCHANGED <<total_possible_failures, plain_counts, idx>>
    /\ UNCHANGED <<input, overflow_checks, lineNo, maintenance_record, parse_error,
                   total_possible_failures_unfold, unfold_counts,
                   new_springs, new_damaged_springs>>
    /\ UNCHANGED <<factor, exec, obs, tasks>>

\* The first loop ends and the second starts, main.rs:134-137.
PlainEnd ==
    /\ pc = "plain"
    /\ idx = Len(maintenance_record)
    /\ pc' = "unfold"
    /\ idx' = 0
    /\ UNCHANGED <<input, overflow_checks, lineNo, maintenance_record, parse_error,
                   total_possible_failures, total_possible_failures_unfold,
                   plain_counts, unfold_counts, new_springs, new_damaged_springs, call>>
    /\ UNCHANGED <<factor, exec, obs, tasks>>

\* One iteration of the second loop of main(), main.rs:137-139.
UnfoldCount ==
    /\ pc = "unfold"
    /\ idx < Len(maintenance_record)
    /\ LET record == maintenance_record[idx + 1]
           r == count_possible_failures_unfold(record, overflow_checks) IN
       /\ new_springs' = Unfolded(record.springs, 0)
       /\ new_damaged_springs' = UnfoldedGroups(record.damaged_springs)
       /\ call' = CallRecord("unfold", idx + 1, r)
       /\ pc' = AfterCall(r.kind, "unfold")
       /\ IF r.kind = "ok"
          THEN /\ total_possible_failures_unfold' =
                     Accumulate(total_possible_failures_unfold, r.result)
               /\ unfold_counts' = Append(unfold_counts, r.result)
               /\ idx' = idx + 1
          ELSE UNCHANGED <<total_possible_failures_unfold, unfold_counts, idx>>
    /\ UNCHANGED <<input, overflow_checks, lineNo, maintenance_record, parse_error,
                   total_possible_failures, plain_counts>>
    /\ UNCHANGED <<factor, exec, obs, tasks>>

\* The second loop ends and the two totals are printed, main.rs:139-142.
Finish ==
    /\ pc = "unfold"
    /\ idx = Len(maintenance_record)
    /\ pc' = "done"
    /\ UNCHANGED <<input, overflow_checks, lineNo, maintenance_record, parse_error, idx,
                   total_possible_failures, total_possible_failures_unfold,
                   plain_counts, unfold_counts, new_springs, new_damaged_springs, call>>
    /\ UNCHANGED <<factor, exec, obs, tasks>>

Next == ParseLine \/ ParseEnd \/ PlainCount \/ PlainEnd \/ UnfoldCount \/ Finish

Spec == Init /\ [][Next]_vars

----------------------------------------------------------------------------
(* The two counting methods called on a record constructed directly, as    *)
(* the tests call them (main.rs:177-182, main.rs:198-203): in any order,   *)
(* up to MaxCalls times.                                                   *)

InitCount ==
    /\ input = <<>>
    /\ overflow_checks \in BOOLEAN
    /\ pc = "call"
    /\ lineNo = 0
    /\ \E record \in DirectRecords : maintenance_record = <<record>>
    /\ parse_error = "none"
    /\ idx = 0
    /\ total_possible_failures = 0
    /\ total_possible_failures_unfold = 0
    /\ plain_counts = <<>>
    /\ unfold_counts = <<>>
    /\ new_springs = <<>>
    /\ new_damaged_springs = <<>>
    /\ call = NoCall
    /\ factor = Copies
    /\ exec = NoExec
    /\ obs = NoObs
    /\ tasks = NoTasks

\* record.count_possible_failures(), main.rs:101-104.
CallCount ==
    /\ pc = "call"
    /\ idx < MaxCalls
    /\ LET r == count_possible_failures(maintenance_record[1], overflow_checks) IN
       /\ call' = CallRecord("count", 1, r)
       /\ pc' = AfterCall(r.kind, "call")
       /\ plain_counts' = IF r.kind = "ok" THEN Append(plain_counts, r.result)
                          ELSE plain_counts
    /\ idx' = idx + 1
    /\ UNCHANGED <<input, overflow_checks, lineNo, maintenance_record, parse_error,
                   total_possible_failures, total_possible_failures_unfold,
                   unfold_counts, new_springs, new_damaged_springs>>
    /\ UNCHANGED <<factor, exec, obs, tasks>>

\* record.count_possible_failures_unfold(), main.rs:106-119.
CallUnfold ==
    /\ pc = "call"
    /\ idx < MaxCalls
    /\ LET record == maintenance_record[1]
           r == count_possible_failures_unfold(record, overflow_checks) IN
       /\ new_springs' = Unfolded(record.springs, 0)
       /\ new_damaged_springs' = UnfoldedGroups(record.damaged_springs)
       /\ call' = CallRecord("unfold", 1, r)
       /\ pc' = AfterCall(r.kind, "call")
       /\ unfold_counts' = IF r.kind = "ok" THEN Append(unfold_counts, r.result)
                           ELSE unfold_counts
    /\ idx' = idx + 1
    /\ UNCHANGED <<input, overflow_checks, lineNo, maintenance_record, parse_error,
                   total_possible_failures, total_possible_failures_unfold, plain_counts>>
    /\ UNCHANGED <<factor, exec, obs, tasks>>

NextCount == CallCount \/ CallUnfold

SpecCount == InitCount /\ [][NextCount]_vars

----------------------------------------------------------------------------
(* One counting call followed step by step: the recursion of               *)
(* possible_failures (main.rs:73-99) on the cache the top-level method     *)
(* has created (main.rs:102, main.rs:116), on short records constructed    *)
(* directly, up to MaxStepCalls calls one after the other.                 *)

StepRecords == {record \in DirectRecords : Len(record.springs) <= MaxStepLen}

\* The offsets (into the record, into the group list) of the sub-problem of
\* frame f: its arguments are suffixes of those of the outermost call.
Offsets(m, f) ==
    <<Len(m.stack[1].lava) - Len(f.lava), Len(m.stack[1].springs) - Len(f.springs)>>

Counted(bag, key) == IF key \in DOMAIN bag THEN bag[key] ELSE 0

\* The value the innermost call of m returns in the step to `after`: the
\* result of the outermost call, or what the caller adds at main.rs:92.
Returned(m, after) ==
    IF Len(m.stack) = 1 THEN after.result ELSE Top(after).result - Caller(m).result

\* The observation o after the step of m to `after`:
\*   "hit"   main.rs:75-76, the result is taken from the cache;
\*   "base"  main.rs:80-81, no group is left;
\*   "scan"  main.rs:84-85, the for loop starts;
\*   "try"   main.rs:86-93, the iteration at offset i gets past the break;
\*   "stop"  main.rs:85-98, the loop ends at offset i and the call returns;
\*   "panic" main.rs:85, "hang" main.rs:85.
Observe(m, after, o) ==
    LET f == Top(m)
        depth == Len(m.stack)
        mine == o.tried[depth]
        outer == SubSeq(o.tried, 1, depth - 1)
        counted == (Offsets(m, f) :> (Counted(o.computed, Offsets(m, f)) + 1)) @@ o.computed
    IN  IF after.status \in {"panic", "hang"}
        THEN [o EXCEPT !.event = Event(after.status, f, 0, FALSE, mine)]
        ELSE IF f.at = "enter"
        THEN IF CacheHas(m.cache, f.lava, f.springs)
             THEN [event |-> Event("hit", f, Returned(m, after), FALSE, mine),
                   tried |-> outer, computed |-> o.computed, stored |-> o.stored]
             ELSE IF f.springs = <<>>
             THEN [event |-> Event("base", f, Returned(m, after), FALSE, mine),
                   tried |-> outer, computed |-> counted, stored |-> o.stored]
             ELSE [event |-> Event("scan", f, 0, FALSE, mine),
                   tried |-> o.tried, computed |-> counted, stored |-> o.stored]
        ELSE IF after.status = "run" /\ Len(after.stack) > depth
        THEN [event |-> Event("try", f, 0, TRUE, mine \cup {f.i}),
              tried |-> Append(Append(outer, mine \cup {f.i}), {}), computed |-> o.computed,
              stored |-> o.stored]
        ELSE IF after.status = "run" /\ Len(after.stack) = depth
        THEN [event |-> Event("try", f, 0, FALSE, mine \cup {f.i}),
              tried |-> Append(outer, mine \cup {f.i}), computed |-> o.computed,
              stored |-> o.stored]
        ELSE [event |-> Event("stop", f, Returned(m, after), FALSE, mine),
              tried |-> outer, computed |-> o.computed,
              stored |-> (Offsets(m, f) :> Returned(m, after)) @@ o.stored]

InitStep ==
    /\ input = <<>>
    /\ overflow_checks \in BOOLEAN
    /\ pc = "call"
    /\ lineNo = 0
    /\ \E record \in StepRecords : maintenance_record = <<record>>
    /\ parse_error = "none"
    /\ idx = 0
    /\ total_possible_failures = 0
    /\ total_possible_failures_unfold = 0
    /\ plain_counts = <<>>
    /\ unfold_counts = <<>>
    /\ new_springs = <<>>
    /\ new_damaged_springs = <<>>
    /\ call = NoCall
    /\ factor = Copies
    /\ exec = NoExec
    /\ obs = NoObs
    /\ tasks = NoTasks

\* What `call` records while the call `op` is in progress.
Calling(op) == [op |-> op, k |-> 1, kind |-> "running", result |-> 0]

\* record.count_possible_failures() up to its call of possible_failures,
\* main.rs:101-103.
BeginCount ==
    /\ pc = "call"
    /\ idx < MaxStepCalls
    /\ LET record == maintenance_record[1] IN
       exec' = Start(record.springs, record.damaged_springs, EmptyCache)
    /\ obs' = [NoObs EXCEPT !.tried = <<{}>>]
    /\ call' = Calling("count")
    /\ pc' = "counting"
    /\ UNCHANGED <<input, overflow_checks, lineNo, maintenance_record, parse_error, idx,
                   total_possible_failures, total_possible_failures_unfold,
                   plain_counts, unfold_counts, new_springs, new_damaged_springs, factor, tasks>>

\* BeginUnfold with new_springs kept from one call to the next and extended.
BeginUnfoldAppending ==
    /\ pc = "call"
    /\ idx < MaxStepCalls
    /\ LET record == maintenance_record[1] IN
       /\ new_springs' = new_springs \o Unfolded(record.springs, 0)
       /\ new_damaged_springs' = UnfoldedGroups(record.damaged_springs)
    /\ exec' = Start(new_springs', new_damaged_springs', EmptyCache)
    /\ obs' = [NoObs EXCEPT !.tried = <<{}>>]
    /\ call' = Calling("unfold")
    /\ pc' = "counting"
    /\ UNCHANGED <<input, overflow_checks, lineNo, maintenance_record, parse_error, idx,
                   total_possible_failures, total_possible_failures_unfold,
                   plain_counts, unfold_counts, factor, tasks>>

\* record.count_possible_failures_unfold() up to its call of
\* possible_failures, main.rs:106-118.
BeginUnfold ==
    /\ pc = "call"
    /\ idx < MaxStepCalls
    /\ LET record == maintenance_record[1] IN
       /\ new_springs' = Unfolded(record.springs, 0)
       /\ new_damaged_springs' = UnfoldedGroups(record.damaged_springs)
    /\ exec' = Start(new_springs', new_damaged_springs', EmptyCache)
    /\ obs' = [NoObs EXCEPT !.tried = <<{}>>]
    /\ call' = Calling("unfold")
    /\ pc' = "counting"
    /\ UNCHANGED <<input, overflow_checks, lineNo, maintenance_record, parse_error, idx,
                   total_possible_failures, total_possible_failures_unfold,
                   plain_counts, unfold_counts, factor, tasks>>

\* One step of possible_failures, main.rs:73-99.
StepCall ==
    /\ pc = "counting"
    /\ exec.status = "run"
    /\ exec' = Step(exec, overflow_checks)
    /\ obs' = Observe(exec, exec', obs)
    /\ UNCHANGED <<input, overflow_checks, pc, lineNo, maintenance_record, parse_error, idx,
                   total_possible_failures, total_possible_failures_unfold,
                   plain_counts, unfold_counts, new_springs, new_damaged_springs, call,
                   factor, tasks>>

\* EndCall that leaves the cache of the call behind.
EndCallKeepingCache ==
    /\ pc = "counting"
    /\ exec.status # "run"
    /\ LET r == IF exec.status = "ok" THEN Ret(exec.result, exec.cache)
                ELSE IF exec.status = "panic" THEN Panicked ELSE Hangs IN
       /\ call' = CallRecord(call.op, 1, r)
       /\ pc' = AfterCall(r.kind, "call")
       /\ plain_counts' = IF r.kind = "ok" /\ call.op = "count"
                          THEN Append(plain_counts, r.result) ELSE plain_counts
       /\ unfold_counts' = IF r.kind = "ok" /\ call.op = "unfold"
                           THEN Append(unfold_counts, r.result) ELSE unfold_counts
    /\ idx' = idx + 1
    /\ exec' = [NoExec EXCEPT !.cache = exec.cache]
    /\ obs' = NoObs
    /\ UNCHANGED <<input, overflow_checks, lineNo, maintenance_record, parse_error,
                   total_possible_failures, total_possible_failures_unfold,
                   new_springs, new_damaged_springs, factor, tasks>>

\* The outermost possible_failures has ended: the top-level method returns
\* its value and its locals, the cache among them, are dropped (main.rs:104,
\* main.rs:119), or the process has panicked or hangs.
EndCall ==
    /\ pc = "counting"
    /\ exec.status # "run"
    /\ LET r == IF exec.status = "ok" THEN Ret(exec.result, exec.cache)
                ELSE IF exec.status = "panic" THEN Panicked ELSE Hangs IN
       /\ call' = CallRecord(call.op, 1, r)
       /\ pc' = AfterCall(r.kind, "call")
       /\ plain_counts' = IF r.kind = "ok" /\ call.op = "count"
                          THEN Append(plain_counts, r.result) ELSE plain_counts
       /\ unfold_counts' = IF r.kind = "ok" /\ call.op = "unfold"
                           THEN Append(unfold_counts, r.result) ELSE unfold_counts
    /\ idx' = idx + 1
    /\ exec' = NoExec
    /\ obs' = NoObs
    /\ UNCHANGED <<input, overflow_checks, lineNo, maintenance_record, parse_error,
                   total_possible_failures, total_possible_failures_unfold,
                   new_springs, new_damaged_springs, factor, tasks>>

NextStep == BeginCount \/ BeginUnfold \/ StepCall \/ EndCall

SpecStep == InitStep /\ [][NextStep]_vars

\* A call that has been made runs on: the process takes the next step of
\* possible_failures as long as there is one, and the top-level method
\* returns (or the process ends) when the outermost call has ended.
SpecStepFair == SpecStep /\ WF_vars(StepCall) /\ WF_vars(EndCall)

----------------------------------------------------------------------------
(* The unfolding called by a caller who wants `factor` copies.  The method *)
(* count_possible_failures_unfold(&self) has no parameter to take the      *)
(* factor (main.rs:106): whatever the caller wants, the call is the same.  *)

InitUnfold ==
    /\ input = <<>>
    /\ overflow_checks \in BOOLEAN
    /\ pc = "call"
    /\ lineNo = 0
    /\ \E record \in StepRecords : maintenance_record = <<record>>
    /\ parse_error = "none"
    /\ idx = 0
    /\ total_possible_failures = 0
    /\ total_possible_failures_unfold = 0
    /\ plain_counts = <<>>
    /\ unfold_counts = <<>>
    /\ new_springs = <<>>
    /\ new_damaged_springs = <<>>
    /\ call = NoCall
    /\ factor \in 1..Copies
    /\ exec = NoExec
    /\ obs = NoObs
    /\ tasks = NoTasks

NextUnfold == CallUnfold

SpecUnfold == InitUnfold /\ [][NextUnfold]_vars

----------------------------------------------------------------------------
(* The per-record computations of the aggregator run as concurrent tasks:  *)
(* one task per record, which makes the two counting calls of main.rs:133  *)
(* and main.rs:138 on its record, each call on a cache of its own          *)
(* (main.rs:102, main.rs:116); the steps of the tasks interleave in any    *)
(* order and the results are summed when every task has ended.  main()     *)
(* itself runs the calls one after the other; the tasks follow the         *)
(* optimisation section 5 of the specification describes.                  *)

MaxTasks == 2       \* most records counted concurrently
MaxParCells == 2    \* most cells in the records counted concurrently

\* The records given to the tasks: with one arrangement, with two, with no
\* cell and no group, and one its group does not fit in.
ParRecords ==
    { [springs |-> <<"?">>, damaged_springs |-> <<1>>],
      [springs |-> <<"?", "?">>, damaged_springs |-> <<1>>],
      [springs |-> <<>>, damaged_springs |-> <<>>],
      [springs |-> <<"?">>, damaged_springs |-> <<2>>] }

RECURSIVE BatchCells(_)
\* The cells of all the records of a batch.
BatchCells(batch) ==
    IF batch = <<>> THEN 0 ELSE Len(Head(batch).springs) + BatchCells(Tail(batch))

RECURSIVE ParBatches(_)
\* The sequences of n records of ParRecords with at most MaxParCells cells.
ParBatches(n) ==
    IF n = 0 THEN {<<>>}
    ELSE {batch \in {Append(shorter, record) :
                         shorter \in ParBatches(n - 1), record \in ParRecords} :
             BatchCells(batch) <= MaxParCells}

\* The task of a record: it starts with record.count_possible_failures().
NewTask(record) ==
    [phase |-> "plain",
     exec |-> Start(record.springs, record.damaged_springs, EmptyCache),
     plain |-> 0, unfold |-> 0]

\* Publish into one slot all the tasks share.
PublishShared(ts, k, field, value) == [ts EXCEPT ![1][field] = value]

\* Task k keeps the value a call returned in a field of its own.
Publish(ts, k, field, value) == [ts EXCEPT ![k][field] = value]

InitPar ==
    /\ input = <<>>
    /\ overflow_checks \in BOOLEAN
    /\ pc = "spawn"
    /\ lineNo = 0
    /\ \E n \in 1..MaxTasks : maintenance_record \in ParBatches(n)
    /\ parse_error = "none"
    /\ idx = 0
    /\ total_possible_failures = 0
    /\ total_possible_failures_unfold = 0
    /\ plain_counts = <<>>
    /\ unfold_counts = <<>>
    /\ new_springs = <<>>
    /\ new_damaged_springs = <<>>
    /\ call = NoCall
    /\ factor = Copies
    /\ exec = NoExec
    /\ obs = NoObs
    /\ tasks = NoTasks

\* One task is started for every record.
Spawn ==
    /\ pc = "spawn"
    /\ tasks' = [k \in 1..Len(maintenance_record) |-> NewTask(maintenance_record[k])]
    /\ pc' = "running"
    /\ UNCHANGED <<input, overflow_checks, lineNo, maintenance_record, parse_error, idx,
                   total_possible_failures, total_possible_failures_unfold,
                   plain_counts, unfold_counts, new_springs, new_damaged_springs, call,
                   factor, exec, obs>>

\* One step of possible_failures (main.rs:73-99) in task k, on the cache of
\* the call the task is making.
TaskStep(k) ==
    /\ pc = "running"
    /\ tasks[k].phase \in {"plain", "unfold"}
    /\ tasks[k].exec.status = "run"
    /\ tasks' = [tasks EXCEPT ![k].exec = Step(tasks[k].exec, overflow_checks)]
    /\ UNCHANGED <<input, overflow_checks, pc, lineNo, maintenance_record, parse_error, idx,
                   total_possible_failures, total_possible_failures_unfold,
                   plain_counts, unfold_counts, new_springs, new_damaged_springs, call,
                   factor, exec, obs>>

\* The call task k is making has ended.  A value returned is kept by the
\* task and the cache of the call is dropped (main.rs:104, main.rs:119);
\* after the plain count the task starts the unfolded count on a new cache
\* (main.rs:106-118).  A call that panics or hangs ends the task that way.
TaskReturn(k) ==
    /\ pc = "running"
    /\ tasks[k].phase \in {"plain", "unfold"}
    /\ tasks[k].exec.status # "run"
    /\ LET task == tasks[k]
           record == maintenance_record[k] IN
       tasks' =
           IF task.exec.status = "panic" THEN
               [tasks EXCEPT ![k].phase = "panicked", ![k].exec = NoExec]
           ELSE IF task.exec.status = "hang" THEN
               [tasks EXCEPT ![k].phase = "hung", ![k].exec = NoExec]
           ELSE IF task.phase = "plain" THEN
               [Publish(tasks, k, "plain", task.exec.result) EXCEPT
                   ![k].phase = "unfold",
                   ![k].exec = Start(Unfolded(record.springs, 0),
                                     UnfoldedGroups(record.damaged_springs), EmptyCache)]
           ELSE
               [Publish(tasks, k, "unfold", task.exec.result) EXCEPT
                   ![k].phase = "done", ![k].exec = NoExec]
    /\ UNCHANGED <<input, overflow_checks, pc, lineNo, maintenance_record, parse_error, idx,
                   total_possible_failures, total_possible_failures_unfold,
                   plain_counts, unfold_counts, new_springs, new_damaged_springs, call,
                   factor, exec, obs>>

TaskRun == \E k \in DOMAIN tasks : TaskStep(k)

TaskEnd == \E k \in DOMAIN tasks : TaskReturn(k)

\* The tasks are joined: a panic of a task is the panic of the program; when
\* all have returned their results are summed into the two totals
\* (main.rs:131-139).  A task that hangs is waited for forever.
Join ==
    /\ pc = "running"
    /\ \/ /\ \E k \in DOMAIN tasks : tasks[k].phase = "panicked"
          /\ pc' = "panicked"
          /\ UNCHANGED <<total_possible_failures, total_possible_failures_unfold,
                         plain_counts, unfold_counts>>
       \/ /\ \A k \in DOMAIN tasks : tasks[k].phase = "done"
          /\ plain_counts' = [k \in DOMAIN tasks |-> tasks[k].plain]
          /\ unfold_counts' = [k \in DOMAIN tasks |-> tasks[k].unfold]
          /\ total_possible_failures' = Sum(plain_counts')
          /\ total_possible_failures_unfold' = Sum(unfold_counts')
          /\ pc' = "done"
    /\ UNCHANGED <<input, overflow_checks, lineNo, maintenance_record, parse_error, idx,
                   new_springs, new_damaged_springs, call, factor, exec, obs, tasks>>

NextPar == Spawn \/ TaskRun \/ TaskEnd \/ Join

SpecPar == InitPar /\ [][NextPar]_vars

----------------------------------------------------------------------------
(* What the claims speak of: arrangements, counted by enumeration.         *)

\* The positions of the Unknown cells of a record.
UnknownCells(sp) == {p \in 1..Len(sp) : sp[p] = "?"}

RECURSIVE RunLengths(_, _, _)
\* The lengths of the maximal runs of TRUE in blocked[p..], left to right,
\* when `run` cells before p are already in a run.
RunLengths(blocked, p, run) ==
    LET closed == IF run > 0 THEN <<run>> ELSE <<>> IN
    IF p > Len(blocked) THEN closed
    ELSE IF blocked[p] THEN RunLengths(blocked, p + 1, run + 1)
    ELSE closed \o RunLengths(blocked, p + 1, 0)

\* The record sp with exactly the Unknown cells of B resolved to Blocked and
\* the others to Clear, as the sequence "cell p is Blocked".
Resolved(sp, B) == [p \in 1..Len(sp) |-> sp[p] = "#" \/ p \in B]

\* The number of arrangements of (sp, g): of the resolutions of the Unknown
\* cells whose maximal Blocked runs have exactly the lengths g, in order.
Arrangements(sp, g) ==
    Cardinality({B \in SUBSET UnknownCells(sp) : RunLengths(Resolved(sp, B), 1, 0) = g})

\* The spec fits in the record: lengths plus one separator between runs.
Fits(sp, g) == Len(sp) >= Sum(g) + Len(g) - 1

LegalCells(sp) == \A p \in 1..Len(sp) : sp[p] \in Cells
PositiveGroups(g) == \A p \in 1..Len(g) : g[p] >= 1

\* The record the last counting call was made on.
Called == maintenance_record[call.k]

----------------------------------------------------------------------------
(* Claims about the counter, under SpecCount.                              *)

\* C1: for every record over {Clear, Blocked, Unknown} and every list of
\* positive run lengths, count_possible_failures returns exactly the number
\* of arrangements found by enumerating the resolutions of the Unknown cells.
C1_CountIsNumberOfArrangements ==
    call.op = "count" =>
        /\ call.kind = "ok"
        /\ call.result = Arrangements(Called.springs, Called.damaged_springs)

\* The same, for the inputs whose spec fits in the record: here the counter
\* does return, and what it returns is the number of arrangements.
CountOfFittingInput ==
    (call.op = "count" /\ Fits(Called.springs, Called.damaged_springs)) =>
        /\ call.kind = "ok"
        /\ call.result = Arrangements(Called.springs, Called.damaged_springs)

\* C2: the count accepts every input: for any record and any list of run
\* lengths >= 1 the call returns a number >= 0, and 0 when the spec does not
\* fit in the record; it neither panics nor fails to return.
C2_CountAlwaysReturns ==
    call.op = "count" =>
        /\ call.kind = "ok"
        /\ call.result >= 0
        /\ ~Fits(Called.springs, Called.damaged_springs) => call.result = 0

\* C3: with an empty list of run lengths the count is 1 if the record holds
\* no Blocked cell and 0 if it holds one, for every record, the empty one
\* included.
C3_BaseCase ==
    (call.op = "count" /\ Called.damaged_springs = <<>>) =>
        /\ call.kind = "ok"
        /\ call.result = IF \E p \in 1..Len(Called.springs) : Called.springs[p] = "#"
                         THEN 0 ELSE 1

\* C3 witness: the count of a record with a Blocked cell and no run lengths
\* has returned 0.
C3_Witness ==
    /\ call.op = "count"
    /\ Called.damaged_springs = <<>>
    /\ Called.springs = <<".", "#", "?">>
    /\ call.kind = "ok"
    /\ call.result = 0

\* C4: for a record without Unknown cells the count is 1 if the lengths of
\* its Blocked runs are exactly the run lengths asked for, and 0 otherwise,
\* also when they do not fit in the record.
C4_KnownRecordCount ==
    (call.op = "count" /\ UnknownCells(Called.springs) = {}) =>
        /\ call.kind = "ok"
        /\ call.result = IF RunLengths(Resolved(Called.springs, {}), 1, 0)
                               = Called.damaged_springs
                         THEN 1 ELSE 0

\* C5: the unfolded record is 5 copies of the record with one Unknown cell
\* between consecutive copies and none before the first or after the last
\* (length 5n + 4), and the unfolded run lengths are 5 copies of the run
\* lengths with nothing inserted.
C5_Unfolded ==
    call.op = "unfold" =>
        LET sp == Called.springs
            g == Called.damaged_springs
            n == Len(sp)
            m == Len(g)
        IN  /\ Len(new_springs) = 5 * n + 4
            /\ \A p \in 1..(5 * n + 4) :
                  new_springs[p] = IF p % (n + 1) = 0 THEN "?" ELSE sp[p % (n + 1)]
            /\ Len(new_damaged_springs) = 5 * m
            /\ \A p \in 1..(5 * m) : new_damaged_springs[p] = g[((p - 1) % m) + 1]

\* C5 witness: a record of three cells and two run lengths has been unfolded.
C5_Witness ==
    /\ call.op = "unfold"
    /\ Called.springs = <<"#", ".", "?">>
    /\ Called.damaged_springs = <<1, 2>>
    /\ Len(new_springs) = 19
    /\ new_damaged_springs = <<1, 2, 1, 2, 1, 2, 1, 2, 1, 2>>

----------------------------------------------------------------------------
(* Claims about main() on a batch of lines, under Spec.                    *)

\* The record of line l of the input, when the parser has produced one: the
\* parser pushes one record per line, in order, until it stops.
Parsed(l) == l <= Len(maintenance_record)

\* Line l follows the input grammar: "<record> <spec>", the record over
\* {'.', '#', '?'}, the spec a comma-separated list of positive decimals.
WellFormed(item) ==
    /\ item.readable
    /\ LET parts == Split(item.text, " ") IN
       /\ Len(parts) = 2
       /\ LegalCells(parts[1])
       /\ LET fields == Split(parts[2], ",") IN
          \A k \in 1..Len(fields) :
             /\ fields[k] # <<>>
             /\ \A d \in 1..Len(fields[k]) : IsDigit(fields[k][d])
             /\ DecimalValue(fields[k], 0) >= 1

\* Five copies of sp with the cell sep between consecutive copies.
FiveJoined(sp, sep) == sp \o sep \o sp \o sep \o sp \o sep \o sp \o sep \o sp

\* C6: the plain total printed for a batch is the sum over all parsed records
\* of the count of the record, each record counted once; the counts of the
\* six canonical records are 1, 4, 1, 1, 4, 10 and their total is 21.
C6_PlainTotal ==
    /\ total_possible_failures = Sum(plain_counts)
    /\ pc = "done" =>
          /\ Len(plain_counts) = Len(maintenance_record)
          /\ \A k \in 1..Len(maintenance_record) :
                LET r == maintenance_record[k] IN
                (LegalCells(r.springs) /\ PositiveGroups(r.damaged_springs)) =>
                    plain_counts[k] = Arrangements(r.springs, r.damaged_springs)
          /\ input = CanonicalBatch =>
                /\ plain_counts = <<1, 4, 1, 1, 4, 10>>
                /\ total_possible_failures = 21

\* C6 witness: main() has printed the totals of the canonical batch.
C6_Witness ==
    /\ pc = "done"
    /\ input = CanonicalBatch
    /\ Len(plain_counts) = 6
    /\ total_possible_failures = 21

\* C7: the unfolded total printed for a batch is the sum over all records of
\* the count of the 5-fold unfolding of the record (checked by enumeration
\* for the short records of the catalogue), not a function of the plain
\* count; the unfolded counts of the six canonical records are 1, 16384, 1,
\* 16, 2500, 506250 and their total is 525152.
C7_UnfoldTotal ==
    /\ total_possible_failures_unfold = Sum(unfold_counts)
    /\ pc = "done" =>
          /\ Len(unfold_counts) = Len(maintenance_record)
          /\ input # CanonicalBatch =>
                \A k \in 1..Len(maintenance_record) :
                   LET r == maintenance_record[k] IN
                   (LegalCells(r.springs) /\ PositiveGroups(r.damaged_springs)) =>
                       unfold_counts[k] =
                          Arrangements(FiveJoined(r.springs, <<"?">>),
                                       FiveJoined(r.damaged_springs, <<>>))
          /\ input = CanonicalBatch =>
                /\ unfold_counts = <<1, 16384, 1, 16, 2500, 506250>>
                /\ total_possible_failures_unfold = 525152

\* C7 witness: main() has printed the totals of the canonical batch, and the
\* unfolded count of its second record, 16384, is not the fifth power of its
\* plain count, 4.
C7_Witness ==
    /\ pc = "done"
    /\ input = CanonicalBatch
    /\ plain_counts[2] = 4
    /\ unfold_counts[2] = 16384
    /\ total_possible_failures_unfold = 525152

\* C8: a malformed line does not abort the batch: once a line has failed to
\* parse, every well-formed line of the batch is still parsed and still
\* contributes its counts to the totals.
C8_MalformedLineDoesNotAbort ==
    (pc = "panicked" /\ parse_error \in {"ParseIntError", "assertion"}) =>
        \A l \in 1..Len(input) :
           WellFormed(input[l]) =>
               /\ Parsed(l)
               /\ l <= Len(plain_counts)
               /\ l <= Len(unfold_counts)

\* C9: a line that does not split into exactly a record field and a spec
\* field is reported as a parse error value, not as an assertion failure
\* that ends the process.
C9_MissingSpecIsParseError ==
    \A l \in 1..lineNo :
       (input[l].readable /\ Len(Split(input[l].text, " ")) # 2) =>
           /\ l = lineNo
           /\ parse_error \in {"ParseIntError", "IoError", "OtherError", "TryFromSliceError"}

\* C10: a line whose record field holds a character outside {'.', '#', '?'}
\* is rejected with a parse error, and no record holding such a character
\* reaches the counter.
C10_IllegalCellRejected ==
    /\ \A k \in 1..Len(maintenance_record) : LegalCells(maintenance_record[k].springs)
    /\ call.op # "none" => LegalCells(Called.springs)

\* C11: every group list the parser produces, and every group list a counting
\* call of main() is made on, holds run lengths >= 1 only: no parsed line
\* yields a 0.
C11_ParsedGroupsPositive ==
    /\ \A k \in 1..Len(maintenance_record) :
          PositiveGroups(maintenance_record[k].damaged_springs)
    /\ call.op # "none" => PositiveGroups(Called.damaged_springs)

----------------------------------------------------------------------------
(* Claims about the steps of one counting call, under SpecStep.            *)

\* The arguments of the outermost possible_failures of the call in progress.
TopLava == IF call.op = "count" THEN maintenance_record[1].springs ELSE new_springs
TopSprings ==
    IF call.op = "count" THEN maintenance_record[1].damaged_springs ELSE new_damaged_springs

\* s is what is left of t after dropping cells from its front.
IsSuffix(s, t) == Len(s) <= Len(t) /\ s = SubSeq(t, Len(t) - Len(s) + 1, Len(t))

AllEqual(counts) == \A a, b \in 1..Len(counts) : counts[a] = counts[b]

\* C12: every top-level counting call, plain or unfolded, starts with a cache
\* of its own that is empty, holds only sub-problems of its own arguments
\* while it runs, and leaves no cache behind when it has returned; and the
\* counts of one record are the same whatever calls were made before.
C12_OwnEmptyCache ==
    /\ pc # "counting" => (exec.stack = <<>> /\ DOMAIN exec.cache = {})
    /\ (pc = "counting" /\ exec.status = "run" /\ Len(exec.stack) = 1
          /\ exec.stack[1].at = "enter") => DOMAIN exec.cache = {}
    /\ pc = "counting" =>
          \A key \in DOMAIN exec.cache :
             IsSuffix(key[1], TopLava) /\ IsSuffix(key[2], TopSprings)
    /\ AllEqual(plain_counts)
    /\ AllEqual(unfold_counts)

\* C12 witness: after a plain and an unfolded call on a record with groups
\* have returned, each with entries in its cache, a third call starts: its
\* cache is empty.
C12_Witness ==
    /\ pc = "counting"
    /\ idx = 2
    /\ maintenance_record[1].damaged_springs # <<>>
    /\ Len(plain_counts) = 1
    /\ Len(unfold_counts) = 1
    /\ exec.status = "run"
    /\ Len(exec.stack) = 1
    /\ exec.stack[1].at = "enter"
    /\ DOMAIN exec.cache = {}

\* C13: unfolding leaves the record and its group list as they were, and
\* every unfold-and-count call on a record builds the same unfolded record
\* and the same unfolded groups as the one before and returns the same count,
\* whatever calls were made in between.
C13_UnfoldPure ==
    [][ /\ maintenance_record' = maintenance_record
        /\ new_springs # <<>> =>
              /\ new_springs' = new_springs
              /\ new_damaged_springs' = new_damaged_springs
        /\ AllEqual(unfold_counts') ]_vars

\* C13 witness: the record ?? with groups 1 has been unfolded and counted
\* twice, with a plain call made as well: both unfolded counts are 252.
C13_Witness ==
    /\ pc = "call"
    /\ idx = 3
    /\ call.op = "unfold"
    /\ maintenance_record = <<[springs |-> <<"?", "?">>, damaged_springs |-> <<1>>]>>
    /\ plain_counts = <<2>>
    /\ unfold_counts = <<252, 252>>
    /\ Len(new_springs) = 14
    /\ new_damaged_springs = <<1, 1, 1, 1, 1>>

----------------------------------------------------------------------------
(* Further claims about the counter, under SpecCount.                      *)

\* The record with one more Unknown cell at its end.
WithTrailingUnknown(record) == [record EXCEPT !.springs = Append(@, "?")]

\* C14: for a record its group list fits in, the count of the record with
\* one more Unknown cell appended is at least the count of the record.
C14_TrailingUnknownMonotone ==
    (call.op = "count" /\ Fits(Called.springs, Called.damaged_springs)) =>
        LET more == count_possible_failures(WithTrailingUnknown(Called), overflow_checks) IN
        /\ call.kind = "ok"
        /\ more.kind = "ok"
        /\ more.result >= call.result

\* C14 witness: the record #?? with groups 1, 1 has been counted 1, and with
\* a fourth, Unknown cell it counts 2.
C14_Witness ==
    /\ call.op = "count"
    /\ Called = [springs |-> <<"#", "?", "?">>, damaged_springs |-> <<1, 1>>]
    /\ call.kind = "ok"
    /\ call.result = 1
    /\ count_possible_failures(WithTrailingUnknown(Called), overflow_checks).result = 2

----------------------------------------------------------------------------
(* Claim about the unfolding by a requested factor, under SpecUnfold.      *)

RECURSIVE CopiesJoined(_, _, _)
\* k >= 1 copies of s with sep between consecutive copies.
CopiesJoined(s, sep, k) == IF k = 1 THEN s ELSE s \o sep \o CopiesJoined(s, sep, k - 1)

\* C15: the unfolding called for the factor k yields k copies of the record
\* joined by k - 1 single Unknown cells and k copies of the groups, for
\* every k >= 1; for k = 1 these are the record and the groups themselves.
C15_FactorIsParameter ==
    call.op = "unfold" =>
        /\ new_springs = CopiesJoined(Called.springs, <<"?">>, factor)
        /\ new_damaged_springs = CopiesJoined(Called.damaged_springs, <<>>, factor)

----------------------------------------------------------------------------
(* Further claims about main() on a batch of lines, under Spec.            *)

\* The two fields of a line with one space, and the comma-separated fields
\* of the second, read off by position.
SpaceAt(t) == CHOOSE p \in 1..Len(t) : t[p] = " "
RecordField(t) == SubSeq(t, 1, SpaceAt(t) - 1)
SpecField(t) == SubSeq(t, SpaceAt(t) + 1, Len(t))
Commas(s) == {p \in 1..Len(s) : s[p] = ","}
NthComma(s, k) == CHOOSE p \in Commas(s) : Cardinality({q \in Commas(s) : q < p}) = k - 1
NthField(s, k) ==
    SubSeq(s, IF k = 1 THEN 1 ELSE NthComma(s, k - 1) + 1,
              IF k = Cardinality(Commas(s)) + 1 THEN Len(s) ELSE NthComma(s, k) - 1)

\* The number whose decimal digits are d.
NumberWritten(d) == CHOOSE n \in 0..(10 ^ Len(d) - 1) : Decimal(n) = d

\* The (record, spec) pair a well-formed line stands for.
PairOf(t) ==
    [springs |-> RecordField(t),
     damaged_springs |-> [k \in 1..(Cardinality(Commas(SpecField(t))) + 1) |->
                             NumberWritten(NthField(SpecField(t), k))]]

\* C16: when every line of the batch is well-formed, the parser yields one
\* record per line read, in the order of the lines, all of them once it has
\* finished; the record of a line is the characters of its first field with
\* the numbers of its comma-separated second field, whatever the other lines
\* of the batch are.
C16_OneRecordPerLine ==
    (\A l \in 1..Len(input) : WellFormed(input[l])) =>
        /\ Len(maintenance_record) = lineNo
        /\ pc # "parse" => Len(maintenance_record) = Len(input)
        /\ \A l \in 1..Len(maintenance_record) :
              maintenance_record[l] = PairOf(input[l].text)

\* C16 witness: the six lines of the canonical batch have been parsed into
\* six records, the first of 7 cells and 3 groups (main.rs:166-168), the
\* third with the groups 1, 3, 1, 6.
C16_Witness ==
    /\ input = CanonicalBatch
    /\ pc = "plain"
    /\ Len(maintenance_record) = 6
    /\ Len(maintenance_record[1].springs) = 7
    /\ Len(maintenance_record[1].damaged_springs) = 3
    /\ maintenance_record[3].damaged_springs = <<1, 3, 1, 6>>

----------------------------------------------------------------------------
(* Further claims about the steps of one counting call, under SpecStep.    *)

\* Placement validity of a run of g cells at offset i (0-based) of record:
\* (1) no Blocked cell in record[0..i], (2) the run lies in the record and
\* holds no Clear cell, (3) the cell after the run, if any, is not Blocked.
ValidPlacement(record, i, g) ==
    /\ \A p \in 1..i : record[p] # "#"
    /\ i + g <= Len(record)
    /\ \A p \in (i + 1)..(i + g) : record[p] # "."
    /\ i + g < Len(record) => record[i + g + 1] # "#"

\* record[i+g+1..]: what follows the run and its separator; nothing when the
\* run ends at the end of the record or one cell before it.
AfterRun(record, i, g) ==
    IF i + g + 1 >= Len(record) THEN <<>> ELSE SubSeq(record, i + g + 2, Len(record))

RECURSIVE PlacementCount(_, _), PlacementSum(_, _, _)
\* The count by the recursive decomposition: without groups 1 or 0 by the
\* base case, otherwise the sum over ALL offsets with a valid placement of
\* the first group of the count of what follows with the other groups.
PlacementCount(record, groups) ==
    IF groups = <<>> THEN (IF \E p \in 1..Len(record) : record[p] = "#" THEN 0 ELSE 1)
    ELSE PlacementSum(record, groups, 0)

\* The part of that sum for the offsets from i on.
PlacementSum(record, groups, i) ==
    IF i > Len(record) THEN 0
    ELSE (IF ValidPlacement(record, i, Head(groups))
          THEN PlacementCount(AfterRun(record, i, Head(groups)), Tail(groups))
          ELSE 0)
         + PlacementSum(record, groups, i + 1)

\* C17: in the recursive case the scan calls itself at an offset exactly when
\* the placement of the first group there is valid, (1) to (3), on the suffix
\* after the run and its separator with the remaining groups, and the value
\* the sub-problem returns is the sum of the counts of these suffixes over the
\* offsets with a valid placement.
C17_RecursiveCase ==
    LET e == obs.event IN
    /\ e.kind = "try" =>
          /\ e.placed <=> ValidPlacement(e.lava, e.i, Head(e.springs))
          /\ e.placed =>
                /\ Top(exec).lava = AfterRun(e.lava, e.i, Head(e.springs))
                /\ Top(exec).springs = Tail(e.springs)
    /\ e.kind = "stop" => e.value = PlacementCount(e.lava, e.springs)

\* C17 witness: the sub-problem ?#??# with groups 1, 1 of the unfolded
\* record ?# has returned 1: of its offsets only 1 has a valid placement,
\* 0 fails (3) and all from 2 on fail (1).
C17_Witness ==
    /\ call.op = "unfold"
    /\ obs.event.kind = "stop"
    /\ obs.event.lava = <<"?", "#", "?", "?", "#">>
    /\ obs.event.springs = <<1, 1>>
    /\ obs.event.value = 1
    /\ obs.event.tried = {0, 1}

----------------------------------------------------------------------------
(* The pruning bound, under SpecCount.                                     *)

\* C18: for every record and every group list the counter, which scans the
\* offsets up to the pruning bound only, returns the count of the counter
\* that scans every offset i with i + g <= record.length.
C18_PruningChangesNothing ==
    call.op = "count" =>
        /\ call.kind = "ok"
        /\ call.result = PlacementCount(Called.springs, Called.damaged_springs)

\* The same for the inputs whose spec fits in the record: there the pruned
\* scan returns, and returns what the unpruned scan counts.
PruningOnFittingInput ==
    (call.op = "count" /\ Fits(Called.springs, Called.damaged_springs)) =>
        /\ call.kind = "ok"
        /\ call.result = PlacementCount(Called.springs, Called.damaged_springs)

----------------------------------------------------------------------------
(* Early termination and memoization, under SpecStep.                      *)

\* The last offset the pruning bound lets the scan of (record, groups) visit.
LastOffset(record, groups) ==
    Len(record) - (Sum(Tail(groups)) + Len(Tail(groups)) + Head(groups))

\* C19: the scan of a sub-problem visits the offsets 0, 1, 2, ... in order
\* and tests the placement at each, skipping none, until it stops; it never
\* tests an offset i with a Blocked cell in record[0..i]; and when it stops
\* at an offset the pruning bound still allows, that offset is the first one
\* with a Blocked cell in record[0..i].
C19_EarlyTermination ==
    LET e == obs.event IN
    /\ e.kind = "try" => \A p \in 1..e.i : e.lava[p] # "#"
    /\ e.kind \in {"try", "stop"} => e.tried = 0..(IF e.kind = "try" THEN e.i ELSE e.i - 1)
    /\ (e.kind = "stop" /\ e.i <= LastOffset(e.lava, e.springs)) =>
          /\ e.i >= 1
          /\ e.lava[e.i] = "#"
          /\ \A p \in 1..(e.i - 1) : e.lava[p] # "#"

\* C19 witness: the scan of the unfolded record ?#??#??#??#??# with five
\* groups 1 has tested the offsets 0 and 1 and stopped at 2, behind the first
\* Blocked cell, with the bound allowing offsets up to 5.
C19_Witness ==
    /\ call.op = "unfold"
    /\ maintenance_record[1] = [springs |-> <<"?", "#">>, damaged_springs |-> <<1>>]
    /\ obs.event.kind = "stop"
    /\ obs.event.lava = new_springs
    /\ obs.event.i = 2
    /\ obs.event.tried = {0, 1}
    /\ LastOffset(obs.event.lava, obs.event.springs) = 5
    /\ exec.status = "ok"
    /\ exec.result = 1

\* The offsets of the sub-problem of the last event in the arguments of the
\* top-level call.
EventOffsets ==
    <<Len(TopLava) - Len(obs.event.lava), Len(TopSprings) - Len(obs.event.springs)>>

\* The sub-problem at the offsets `key` has no group left.
NoGroupLeft(key) == key[2] = Len(TopSprings)

\* C20 as stated: within one top-level call every sub-problem (record
\* offset, group offset), those with no group left included, is computed at
\* most once.
C20_ComputedOnce ==
    pc = "counting" => \A key \in DOMAIN obs.computed : obs.computed[key] <= 1

\* C20 amended: within one top-level call every sub-problem with a group
\* left is computed at most once, and a request answered from the cache is a
\* request for such a sub-problem, computed exactly once before; a sub-problem
\* with no group left is never in the cache and is evaluated at each request.
C20_ScannedOnce ==
    pc = "counting" =>
        /\ \A key \in DOMAIN obs.computed : ~NoGroupLeft(key) => obs.computed[key] <= 1
        /\ obs.event.kind = "hit" =>
              /\ obs.event.springs # <<>>
              /\ Counted(obs.computed, EventOffsets) = 1
        /\ obs.event.kind = "base" =>
              /\ obs.event.springs = <<>>
              /\ Counted(obs.computed, EventOffsets) >= 1
        /\ \A key \in DOMAIN exec.cache : key[2] # <<>>

\* C20 witness: in the count of an unfolded record a request for a
\* sub-problem with groups left has just been answered from the cache, and
\* a sub-problem with no group left has been evaluated more than once.
C20_Witness ==
    /\ pc = "counting"
    /\ call.op = "unfold"
    /\ obs.event.kind = "hit"
    /\ obs.event.springs # <<>>
    /\ obs.event.value >= 1
    /\ \E key \in DOMAIN obs.computed : NoGroupLeft(key) /\ obs.computed[key] >= 2

----------------------------------------------------------------------------
(* The keys of the cache, under SpecStep.                                  *)

\* The offsets in the arguments of the top-level call of the sub-problem
\* with the cache key `key`.
KeyOffsets(key) == <<Len(TopLava) - Len(key[1]), Len(TopSprings) - Len(key[2])>>

\* The record suffix s with its first cell replaced by c.
WithFirstCell(s, c) == [s EXCEPT ![1] = c]

\* C21: the keys of the cache are pairs of offsets: two cached sub-problems
\* are the same key exactly when their offsets are the same, and a lookup
\* does not read the cells: for the offsets of a cached sub-problem it finds
\* the entry whatever cells the record suffix passed to it holds.
C21_KeysAreOffsets ==
    pc = "counting" =>
        /\ \A k1, k2 \in DOMAIN exec.cache : k1 = k2 <=> KeyOffsets(k1) = KeyOffsets(k2)
        /\ \A key \in DOMAIN exec.cache :
              key[1] # <<>> =>
                  \A c \in Cells : CacheHas(exec.cache, WithFirstCell(key[1], c), key[2])

\* C22: when a call on a sub-problem with groups left returns v, computed or
\* taken from the cache, the cache holds the sub-problem mapped to v; and as
\* long as the top-level call runs, every entry of the cache stays in it with
\* its value: the cache only grows.
C22_CacheOnlyGrows ==
    [][ /\ (pc = "counting" /\ pc' = "counting") =>
              \A key \in DOMAIN exec.cache :
                 key \in DOMAIN exec'.cache /\ exec'.cache[key] = exec.cache[key]
        /\ obs'.event.kind \in {"stop", "hit"} =>
              LET key == <<obs'.event.lava, obs'.event.springs>> IN
              /\ key[2] # <<>>
              /\ key \in DOMAIN exec'.cache
              /\ exec'.cache[key] = obs'.event.value ]_vars

\* C22 witness: the count of the unfolded record ?? with groups 1 has
\* returned 252 with the top-level sub-problem as the newest of more than
\* ten entries of its cache.
C22_Witness ==
    /\ pc = "counting"
    /\ call.op = "unfold"
    /\ maintenance_record[1] = [springs |-> <<"?", "?">>, damaged_springs |-> <<1>>]
    /\ exec.status = "ok"
    /\ obs.event.kind = "stop"
    /\ Cardinality(DOMAIN exec.cache) > 10
    /\ exec.cache[<<new_springs, new_damaged_springs>>] = 252

\* C23 as stated: at every point of a top-level counting call on a record of
\* n cells with m groups the cache holds at most n * m entries.
C23_AtMostCellsTimesGroups ==
    pc = "counting" =>
        Cardinality(DOMAIN exec.cache) <= Len(TopLava) * Len(TopSprings)

\* C23, amended: at every point of a top-level counting call on a record of
\* n >= 1 cells with m groups the cache holds at most n * m entries; on the
\* empty record it holds at most one entry, the top-level sub-problem itself.
C23_AtMostCellsTimesGroupsOrOne ==
    pc = "counting" =>
        IF Len(TopLava) >= 1
        THEN Cardinality(DOMAIN exec.cache) <= Len(TopLava) * Len(TopSprings)
        ELSE Cardinality(DOMAIN exec.cache) <= 1

\* C23 witness: a call on a record with cells has returned with the cache as
\* large as the bound allows, n * m entries.
C23_Witness ==
    /\ pc = "counting"
    /\ exec.status = "ok"
    /\ Len(TopLava) >= 1
    /\ Cardinality(DOMAIN exec.cache) = Len(TopLava) * Len(TopSprings)

----------------------------------------------------------------------------
(* The per-record computations run concurrently, under SpecPar.            *)

\* The counts of record k when main() makes the calls one after the other,
\* in input order (main.rs:131-139).
SequentialPlain(k) == count_possible_failures(maintenance_record[k], overflow_checks)
SequentialUnfold(k) == count_possible_failures_unfold(maintenance_record[k], overflow_checks)

\* Every call of the sequential run returns a count.
SequentialOk ==
    \A k \in 1..Len(maintenance_record) :
        SequentialPlain(k).kind = "ok" /\ SequentialUnfold(k).kind = "ok"

\* C24: the per-record counting calls share no mutable state: run as
\* concurrent tasks, one per record and each call on a cache of its own,
\* with the results summed, they give under every interleaving of their
\* steps the plain and the unfolded total of the sequential run in input
\* order; and a task fails only where the sequential run fails.
C24_ConcurrentTotals ==
    /\ pc = "done" =>
          /\ SequentialOk
          /\ total_possible_failures =
                Sum([k \in 1..Len(maintenance_record) |-> SequentialPlain(k).result])
          /\ total_possible_failures_unfold =
                Sum([k \in 1..Len(maintenance_record) |-> SequentialUnfold(k).result])
    /\ (\E k \in DOMAIN tasks : tasks[k].phase \in {"panicked", "hung"}) => ~SequentialOk
    /\ pc = "panicked" =>
          \E k \in 1..Len(maintenance_record) :
              SequentialPlain(k).kind = "panic" \/ SequentialUnfold(k).kind = "panic"

\* C24 witness: two tasks, on the records ?? with groups 1 and the empty
\* one, have been joined with the totals 2 + 1 and 252 + 1.
C24_Witness ==
    /\ pc = "done"
    /\ Len(tasks) = 2
    /\ total_possible_failures = 3
    /\ total_possible_failures_unfold = 253

----------------------------------------------------------------------------
(* Soundness of the cache, under SpecStep.                                 *)

\* C25: every entry of the cache maps its (record suffix, group suffix) to
\* the number of arrangements of that sub-problem.  The entry a call has
\* just stored, and the entry a call has just been answered from, hold what
\* the recursive decomposition gives without a cache, and that is the value
\* the call returns; on the short records of the plain calls every entry
\* holds the number of resolutions counted one by one.  (By C22 an entry
\* keeps the value it was stored with.)
C25_CacheSound ==
    pc = "counting" =>
        /\ obs.event.kind \in {"stop", "hit"} =>
              LET key == <<obs.event.lava, obs.event.springs>> IN
              /\ key \in DOMAIN exec.cache
              /\ exec.cache[key] = PlacementCount(key[1], key[2])
              /\ obs.event.value = exec.cache[key]
        /\ call.op = "count" =>
              \A key \in DOMAIN exec.cache : exec.cache[key] = Arrangements(key[1], key[2])

\* C25 witness: in an unfolded count a sub-problem with more than one
\* arrangement is answered from the cache.
C25_Witness ==
    /\ pc = "counting"
    /\ call.op = "unfold"
    /\ obs.event.kind = "hit"
    /\ obs.event.value > 1
    /\ exec.cache[<<obs.event.lava, obs.event.springs>>] = obs.event.value

----------------------------------------------------------------------------
(* Feasibility through the recursion, under SpecStep.                      *)

\* C26: when the arguments of the top-level call satisfy
\* length >= sum(groups) + count(groups) - 1, so do those of every call in
\* progress that has a group left: in each of them the end of the range of
\* main.rs:85 is computed without going below zero (no panic, no wrapped
\* bound, no call that hangs), and every offset the scan tests or recurses
\* at has its run inside the record, i + current <= length.
C26_FeasibilityKept ==
    (pc = "counting" /\ Len(TopLava) >= Sum(TopSprings) + Len(TopSprings) - 1) =>
        /\ exec.status \notin {"panic", "hang"}
        /\ \A d \in 1..Len(exec.stack) :
              LET f == exec.stack[d] IN
              f.springs # <<>> =>
                  /\ Len(f.lava) >= Sum(f.springs) + Len(f.springs) - 1
                  /\ f.at \in {"loop", "wait"} =>
                        /\ f.bound.kind = "ok"
                        /\ f.bound.wraps = 0
                        /\ f.bound.n = Len(f.lava) - Sum(f.springs) - Len(f.springs) + 2
                        /\ f.bound.n >= 1
                  /\ f.at = "wait" => f.i + Head(f.springs) <= Len(f.lava)
        /\ obs.event.kind = "try" =>
              obs.event.i + Head(obs.event.springs) <= Len(obs.event.lava)

\* C26 witness: three calls deep in an unfolded count, the innermost call
\* scans a suffix its groups fit in exactly: its range ends after offset 0.
C26_Witness ==
    /\ pc = "counting"
    /\ call.op = "unfold"
    /\ Len(TopLava) >= Sum(TopSprings) + Len(TopSprings) - 1
    /\ Len(exec.stack) >= 3
    /\ LET f == exec.stack[Len(exec.stack)] IN
       /\ f.at = "loop"
       /\ f.springs # <<>>
       /\ Len(f.lava) = Sum(f.springs) + Len(f.springs) - 1
       /\ f.bound.n = 1

----------------------------------------------------------------------------
(* The cache keyed by contents and the cache keyed by offsets, under       *)
(* SpecStep.                                                               *)

\* C27: every sub-problem the recursion reaches is a suffix of the record
\* of the top-level call with a suffix of its group list, so no two keys of
\* the cache have the same offsets, and at every step the cache keyed by
\* the contents of the slices has the entries a cache keyed by the offsets
\* would have, with the same values, and answers the lookup of the call
\* just entered as that cache would: a hit for a hit, a miss for a miss.
C27_ContentKeysAsOffsetKeys ==
    pc = "counting" =>
        /\ \A d \in 1..Len(exec.stack) :
              /\ IsSuffix(exec.stack[d].lava, TopLava)
              /\ IsSuffix(exec.stack[d].springs, TopSprings)
        /\ \A key \in DOMAIN exec.cache :
              /\ IsSuffix(key[1], TopLava)
              /\ IsSuffix(key[2], TopSprings)
              /\ KeyOffsets(key) \in DOMAIN obs.stored
              /\ obs.stored[KeyOffsets(key)] = exec.cache[key]
        /\ \A k1, k2 \in DOMAIN exec.cache : KeyOffsets(k1) = KeyOffsets(k2) => k1 = k2
        /\ Cardinality(DOMAIN exec.cache) = Cardinality(DOMAIN obs.stored)
        /\ (exec.status = "run" /\ exec.stack[Len(exec.stack)].at = "enter") =>
              LET f == exec.stack[Len(exec.stack)] IN
              (<<f.lava, f.springs>> \in DOMAIN exec.cache)
                  <=> (<<Len(TopLava) - Len(f.lava), Len(TopSprings) - Len(f.springs)>>
                          \in DOMAIN obs.stored)
        /\ obs.event.kind = "hit" => obs.stored[EventOffsets] = obs.event.value

\* C27 witness: in the unfolded count of .? with groups 1 a call two or
\* more deep is about to be answered from a cache of three or more entries,
\* by a key the offset-keyed cache holds too.
C27_Witness ==
    /\ pc = "counting"
    /\ call.op = "unfold"
    /\ maintenance_record[1] = [springs |-> <<".", "?">>, damaged_springs |-> <<1>>]
    /\ exec.status = "run"
    /\ Len(exec.stack) >= 2
    /\ LET f == exec.stack[Len(exec.stack)] IN
       /\ f.at = "enter"
       /\ <<f.lava, f.springs>> \in DOMAIN exec.cache
       /\ <<Len(TopLava) - Len(f.lava), Len(TopSprings) - Len(f.springs)>> \in DOMAIN obs.stored
    /\ Cardinality(DOMAIN exec.cache) >= 3

----------------------------------------------------------------------------
(* Termination, under SpecStepFair.                                        *)

\* C28: every top-level counting call on arguments with
\* length >= sum(groups) + count(groups) - 1 terminates, returning a count.
\* Each call in progress has exactly one group fewer than its caller, so at
\* most count(groups) calls are nested in the top-level one; and each scan
\* of such a call visits offsets of its record only, in order, at most
\* length + 1 of them.
C28_Terminates ==
    /\ [](pc = "counting" =>
            /\ Len(exec.stack) <= Len(TopSprings) + 1
            /\ \A d \in 1..Len(exec.stack) :
                  Len(exec.stack[d].springs) = Len(TopSprings) - (d - 1)
            /\ Len(TopLava) >= Sum(TopSprings) + Len(TopSprings) - 1 =>
                  \A d \in 1..Len(exec.stack) :
                      LET f == exec.stack[d] IN
                      /\ f.i <= Len(f.lava) + 1
                      /\ f.at = "wait" => f.i <= Len(f.lava)
                      /\ obs.tried[d] = 0..(IF f.at = "wait" THEN f.i ELSE f.i - 1)
                      /\ Cardinality(obs.tried[d]) <= Len(f.lava) + 1)
    /\ (pc = "counting" /\ Len(TopLava) >= Sum(TopSprings) + Len(TopSprings) - 1)
          ~> (pc = "call" /\ call.kind = "ok" /\ exec = NoExec)

\* C28 witness: in the unfolded count of a record its groups fit in, as
\* many calls are nested in the top-level one as it has groups, five or
\* more: the innermost has no group left.
C28_Witness ==
    /\ pc = "counting"
    /\ Len(TopLava) >= Sum(TopSprings) + Len(TopSprings) - 1
    /\ Len(TopSprings) >= 5
    /\ Len(exec.stack) = Len(TopSprings) + 1
    /\ exec.stack[Len(exec.stack)].springs = <<>>

----------------------------------------------------------------------------
(* The outcome of parsing a batch, under Spec.                             *)

\* C29: parsing a batch is all-or-nothing: when it has ended, either every
\* line has given one record (Ok), or it has ended at its first failing line
\* with an error value, a ParseIntError of a group field or the error of a
\* line that could not be read, and then no counting call is made and no
\* total is computed.
C29_AllOrNothing ==
    pc # "parse" =>
        \/ /\ parse_error = "none"
           /\ lineNo = Len(input)
           /\ Len(maintenance_record) = Len(input)
        \/ /\ parse_error \in {"ParseIntError", "IoError"}
           /\ pc = "panicked"
           /\ Len(maintenance_record) = lineNo - 1
           /\ call = NoCall
           /\ total_possible_failures = 0
           /\ total_possible_failures_unfold = 0
           /\ plain_counts = <<>>
           /\ unfold_counts = <<>>

----------------------------------------------------------------------------
(* The unfolded count and the plain count, under SpecCount.                *)

\* The plain count of the record of the last call, as the same build
\* returns it.
PlainOfCalled == count_possible_failures(Called, overflow_checks)

FifthPower(n) == n * n * n * n * n

\* C30: for every record and every non-empty group list the unfolded count
\* is at least the fifth power of the plain count.
C30_UnfoldAtLeastFifthPower ==
    (call.op = "unfold" /\ Called.damaged_springs # <<>>) =>
        /\ call.kind = "ok"
        /\ PlainOfCalled.kind = "ok"
        /\ call.result >= FifthPower(PlainOfCalled.result)

\* The same for the records their groups fit in: both calls return, and the
\* unfolded count is at least the fifth power of the plain one.
FifthPowerOnFittingInput ==
    (/\ call.op = "unfold"
     /\ Called.damaged_springs # <<>>
     /\ Fits(Called.springs, Called.damaged_springs)) =>
        /\ call.kind = "ok"
        /\ PlainOfCalled.kind = "ok"
        /\ call.result >= FifthPower(PlainOfCalled.result)

=============================================================================
